---- MODULE Spec2Model ----
(***************************************************************************)
(* Model of flask_setup.py: the scaffolder of a Flask project skeleton.    *)
(*                                                                         *)
(* Text (file contents, path strings, console answers, printed messages)   *)
(* is a sequence of tokens.  A token is a chunk of characters that the     *)
(* program never looks inside: "\n", "/", ".", " " and single letters are  *)
(* tokens of their own wherever the program splits, trims, joins or        *)
(* lower-cases at them.  String concatenation and f-strings are \o.        *)
(*                                                                         *)
(* The persistent state of the program is the filesystem.                  *)
(***************************************************************************)
EXTENDS Integers, Sequences, FiniteSets, TLC

VARIABLES
    fs,      \* the filesystem: resolved path -> node, for every existing path
    last,    \* the last operation: its inputs, the filesystem before it, its result
    crashes  \* how many runs of init_project were interrupted so far

vars == <<fs, last, crashes>>

----------------------------------------------------------------------------
(* Bounds of the model. *)

\* longest module list given to one call
MaxLen == 2

\* interrupted runs of init_project in one behaviour
MaxCrashes == 1

----------------------------------------------------------------------------
(* Text. *)

NL == "\n"

Whitespace == {" ", "\t", NL}

\* str.lower() on one character
LowerChar(c) ==
    CASE c = "Y" -> "y"
      [] c = "E" -> "e"
      [] c = "S" -> "s"
      [] c = "N" -> "n"
      [] c = "O" -> "o"
      [] c = "Q" -> "q"
      [] OTHER -> c

\* str.lower()
Lower(s) == [i \in 1..Len(s) |-> LowerChar(s[i])]

RECURSIVE LStrip(_)
LStrip(s) ==
    IF s # <<>> /\ Head(s) \in Whitespace THEN LStrip(Tail(s)) ELSE s

RECURSIVE RStrip(_)
RStrip(s) ==
    IF s # <<>> /\ s[Len(s)] \in Whitespace
    THEN RStrip(SubSeq(s, 1, Len(s) - 1))
    ELSE s

\* str.strip()
Strip(s) == RStrip(LStrip(s))

\* index of the first token t of s, 0 when there is none
RECURSIVE IndexFrom(_, _, _)
IndexFrom(s, t, i) ==
    IF i > Len(s) THEN 0
    ELSE IF s[i] = t THEN i
    ELSE IndexFrom(s, t, i + 1)

\* file.readlines(): the lines of a text, each with its line end
RECURSIVE ReadLines(_)
ReadLines(s) ==
    IF s = <<>> THEN <<>>
    ELSE LET i == IndexFrom(s, NL, 1)
         IN  IF i = 0 THEN <<s>>
             ELSE <<SubSeq(s, 1, i)>> \o ReadLines(SubSeq(s, i + 1, Len(s)))

\* str.split(sep): the pieces between the separators
RECURSIVE Split(_, _)
Split(s, sep) ==
    IF s = <<>> THEN << <<>> >>
    ELSE LET rest == Split(Tail(s), sep)
         IN  IF Head(s) = sep THEN << <<>> >> \o rest
             ELSE << <<Head(s)>> \o Head(rest) >> \o Tail(rest)

----------------------------------------------------------------------------
(* Templates. *)

APP_BASE ==
    << NL, "import os", NL, "from flask import Flask", NL,
       "from config import get_config", NL, NL,
       "app = Flask(__name__)", NL, NL,
       "if __name__ == '__main__':", NL, "    app.run()", NL >>

CONTENT == <<>>

CONFIG_BASE ==
    << NL, "import os", NL, NL, "class Config:", NL,
       "def get_config(env):", NL, "    return config_by_name[env]", NL >>

REQ_BASE ==
    << NL, "psycopg2", NL, "flask", NL, "Flask-Cors", NL,
       "Flask-SQLAlchemy  ", NL, "flasgger ", NL >>

DB_COMMENT == << "# Flask project database file" >>

----------------------------------------------------------------------------
(* The filesystem.  A path string resolves, from the current directory, to *)
(* the sequence of its components; the current directory is <<>>.          *)

DirNode == [kind |-> "dir", data |-> <<>>]

FileNode(text) == [kind |-> "file", data |-> text]

\* the current directory, empty
EmptyFS == [p \in {<<>>} |-> DirNode]

\* the components of a path string: "." and empty components name nothing
Resolve(p) ==
    SelectSeq(Split(p, "/"), LAMBDA c : c # <<>> /\ c # <<".">>)

\* os.path.exists
Exists(f, p) == p # <<>> /\ Resolve(p) \in DOMAIN f

IsPrefixOf(r, q) == Len(r) <= Len(q) /\ SubSeq(q, 1, Len(r)) = r

\* os.makedirs: the directory and every missing ancestor
MakeDirsFS(f, p) ==
    LET r == Resolve(p)
        new == {SubSeq(r, 1, i) : i \in 1..Len(r)} \ DOMAIN f
    IN  [q \in DOMAIN f \cup new |-> IF q \in DOMAIN f THEN f[q] ELSE DirNode]

\* open(p, "w"): the file exists and is empty
OpenWriteFS(f, p) ==
    LET r == Resolve(p)
    IN  [q \in DOMAIN f \cup {r} |-> IF q = r THEN FileNode(<<>>) ELSE f[q]]

\* file.write(text) on a file opened with "w" or "a": the text goes to its end
WriteFS(f, p, text) ==
    LET r == Resolve(p)
    IN  [f EXCEPT ![r] = FileNode(@.data \o text)]

\* shutil.rmtree: the directory and everything under it
RmTreeFS(f, p) ==
    LET r == Resolve(p)
    IN  [q \in {x \in DOMAIN f : ~IsPrefixOf(r, x)} |-> f[q]]

\* the text of a file
ReadFS(f, p) == f[Resolve(p)].data

\* open(p, "w") needs the directory of p
ParentExists(f, p) ==
    LET r == Resolve(p)
    IN  /\ r # <<>>
        /\ SubSeq(r, 1, Len(r) - 1) \in DOMAIN f
        /\ f[SubSeq(r, 1, Len(r) - 1)].kind = "dir"

\* os.path.join of two parts
Join(a, b) ==
    IF b # <<>> /\ Head(b) = "/" THEN b
    ELSE IF a = <<>> \/ a[Len(a)] = "/" THEN a \o b
    ELSE a \o <<"/">> \o b

----------------------------------------------------------------------------
(* A run.  A run carries the filesystem, what it printed, the answers      *)
(* still to be read from the console, the directories it asked about, the  *)
(* exception or exit that ended it, and how many filesystem operations it  *)
(* made; a run that is interrupted after `limit` operations makes no       *)
(* further one.                                                            *)

StartRun(f, stdin) ==
    [fs |-> f, out |-> <<>>, stdin |-> stdin, prompts |-> <<>>,
     status |-> "ok", code |-> 0,
     n |-> 0, limited |-> FALSE, limit |-> 0, cut |-> FALSE]

StartRunUntil(f, k) == [StartRun(f, <<>>) EXCEPT !.limited = TRUE, !.limit = k]

\* the run has not been interrupted
Alive(st) == ~st.cut

\* no exception was raised and sys.exit was not called
Ok(st) == st.status = "ok"

\* raise: what follows in the run is skipped
Raise(st, exception) == [st EXCEPT !.status = exception]

\* one filesystem operation; the run is cut where it would make one too many
Mutate(st, f) ==
    IF ~Alive(st) THEN st
    ELSE IF st.limited /\ st.n >= st.limit THEN [st EXCEPT !.cut = TRUE]
    ELSE [st EXCEPT !.fs = f, !.n = @ + 1]

MakeDirs(st, p) == Mutate(st, MakeDirsFS(st.fs, p))

OpenWrite(st, p) == Mutate(st, OpenWriteFS(st.fs, p))

Write(st, p, text) == Mutate(st, WriteFS(st.fs, p, text))

Emit(st, msg) == IF Alive(st) THEN [st EXCEPT !.out = Append(@, msg)] ELSE st

----------------------------------------------------------------------------
(* create_module_folder_and_template *)

\* BlueprintStub with the URL prefix left out
BlueprintStubNoPrefix(module) ==
    module \o <<"_bp = Blueprint('">> \o module \o <<"', __name__)">>

\* the second line of a module's source stub
BlueprintStub(module) ==
    module \o <<"_bp = Blueprint('">> \o module
           \o <<"', __name__,url_prefix='">> \o module \o <<"')">>

\* lines 115-125: the module's folder and its source stub
CreateModuleFolder(st, module, module_dir, stub) ==
    IF ~Exists(st.fs, module_dir)
    THEN Emit(Write(Write(Write(OpenWrite(MakeDirs(st, module_dir), stub),
                                stub, <<"from flask import Blueprint">>),
                          stub, <<NL>>),
                    stub, BlueprintStub(module)),
              <<"Created ">> \o module \o <<" folder">>)
    ELSE st

\* lines 127-129: the module's template folder
CreateTemplateFolder(st, template_dirs) ==
    IF ~Exists(st.fs, template_dirs) THEN MakeDirs(st, template_dirs) ELSE st

create_module_folder_and_template(st, module, modules_dir, template_dir) ==
    CreateTemplateFolder(
        CreateModuleFolder(st, module,
                           modules_dir \o <<"/">> \o module,
                           modules_dir \o <<"/">> \o module
                                       \o <<"/">> \o module \o <<".py">>),
        template_dir \o <<"/">> \o module)

----------------------------------------------------------------------------
(* init_project *)

ImportLine(module) ==
    <<"from modules.">> \o module \o <<" import ">> \o module \o <<"_bp">>

RegisterLine(module) ==
    <<"app.register_blueprint(">> \o module \o <<"_bp)">>

\* LinesPresent comparing the lines as read, with their line ends
LinesPresentUntrimmed(lines, modules) ==
    \A i \in 1..Len(modules) :
        /\ \E j \in 1..Len(lines) : lines[j] = ImportLine(modules[i])
        /\ \E j \in 1..Len(lines) : lines[j] = RegisterLine(modules[i])

\* lines 193-202: every module has both of its lines, trimmed, in the file
LinesPresent(lines, modules) ==
    \A i \in 1..Len(modules) :
        /\ \E j \in 1..Len(lines) : Strip(lines[j]) = ImportLine(modules[i])
        /\ \E j \in 1..Len(lines) : Strip(lines[j]) = RegisterLine(modules[i])

\* lines 179-180: the loop over the modules
RECURSIVE CreateModules(_, _, _, _)
CreateModules(st, modules, modules_dir, template_dir) ==
    IF modules = <<>> THEN st
    ELSE CreateModules(
             create_module_folder_and_template(
                 st, Head(modules), modules_dir, template_dir),
             Tail(modules), modules_dir, template_dir)

\* lines 208-211: the loop that writes every module's two lines
RECURSIVE AppendBlueprints(_, _, _)
AppendBlueprints(st, application_file, modules) ==
    IF modules = <<>> THEN st
    ELSE LET module == Head(modules)
             a == Write(st, application_file, ImportLine(module) \o <<NL>>)
             b == Write(a, application_file, RegisterLine(module) \o <<NL>>)
             c == Emit(b, <<"Added ">> \o module
                              \o <<" blueprint to application.py file">>)
         IN  AppendBlueprints(c, application_file, Tail(modules))

\* AddBlueprints with the file opened with "w"
AddBlueprintsTruncating(st, application_file, modules) ==
    AppendBlueprints(Write(OpenWrite(st, application_file),
                           application_file, <<NL>>),
                     application_file, modules)

\* lines 205-211: the file is opened with "a", so what is written goes to its end
AddBlueprints(st, application_file, modules) ==
    AppendBlueprints(Write(st, application_file, <<NL>>),
                     application_file, modules)

\* a directory is made, and the notice printed, when the path does not exist
EnsureDir(st, dir, notice) ==
    IF ~Exists(st.fs, dir) THEN Emit(MakeDirs(st, dir), notice) ELSE st

\* a file is written when the path does not exist
EnsureFile(st, file, text) ==
    IF ~Exists(st.fs, file) THEN Write(OpenWrite(st, file), file, text) ELSE st

\* a file is written, and the notice printed, when the path does not exist
EnsureFileNoticed(st, file, text, notice) ==
    IF ~Exists(st.fs, file)
    THEN Emit(Write(OpenWrite(st, file), file, text), notice)
    ELSE st

\* lines 187-211: the blueprints are added when a line of a module is missing
RegisterBlueprints(st, application_file, modules) ==
    IF ~Alive(st) THEN st
    ELSE IF ~LinesPresent(ReadLines(ReadFS(st.fs, application_file)), modules)
         THEN AddBlueprints(st, application_file, modules)
         ELSE st

ApplicationFile(root_dir) == root_dir \o <<"/", "application", ".py">>

DbFile(root_dir) == root_dir \o <<"/", "db", ".py">>

ConfigFile(root_dir) == root_dir \o <<"/", "config", ".py">>

TemplateDir(root_dir) == root_dir \o <<"/", "templates">>

ModulesDir(root_dir) == root_dir \o <<"/", "modules">>

StaticDir(root_dir) == root_dir \o <<"/", "static">>

\* lines 139-176: everything before the loop over the modules
InitSkeleton(st, root_dir) ==
    EnsureDir(
      EnsureDir(
        EnsureFileNoticed(
          EnsureFile(
            EnsureFileNoticed(
              EnsureDir(st, root_dir,
                        <<"Created ">> \o root_dir \o <<" folder">>),
              ApplicationFile(root_dir), APP_BASE,
              <<"Created application.py file">>),
            DbFile(root_dir), DB_COMMENT),
          ConfigFile(root_dir), CONFIG_BASE, <<"Created config.py file">>),
        TemplateDir(root_dir), <<"Created templates folder">>),
      ModulesDir(root_dir), <<"Created modules folder">>)

init_project(st, project_name, modules) ==
    RegisterBlueprints(
        EnsureDir(
            CreateModules(InitSkeleton(st, project_name), modules,
                          ModulesDir(project_name), TemplateDir(project_name)),
            StaticDir(project_name), <<"Created static folder">>),
        ApplicationFile(project_name), modules)

----------------------------------------------------------------------------------------------------------------------------------------
(* remove_project *)

\* line 234 compares the bound method confirm.lower, not its result, with "n":
\* a method object equals no string
MethodEqualsString(confirm, text) == FALSE

\* line 238
InvalidResponseExit == 0

\* Confirmed deleting on every answer but no
ConfirmedUnlessNo(st, directory, confirm) ==
    IF Lower(confirm) = <<"n", "o">>
    THEN Emit(st, <<"Directory ">> \o directory \o <<" was not deleted">>)
    ELSE Emit(Mutate(st, RmTreeFS(st.fs, directory)),
              <<"Directory ">> \o directory \o <<" successfully deleted">>)

\* lines 231-238: what the answer decides
Confirmed(st, directory, confirm) ==
    IF Lower(confirm) = <<"y">> \/ Lower(confirm) = <<"y", "e", "s">>
    THEN Emit(Mutate(st, RmTreeFS(st.fs, directory)),
              <<"Directory ">> \o directory \o <<" successfully deleted">>)
    ELSE IF \/ MethodEqualsString(confirm, <<"n">>)
            \/ Lower(confirm) = <<"n", "o">>
    THEN Emit(st, <<"Directory ">> \o directory \o <<" was not deleted">>)
    ELSE [Emit(st, <<"Invalid response">>)
             EXCEPT !.status = "SystemExit", !.code = InvalidResponseExit]

\* lines 228-230: input() prints the question and reads one answer
Ask(st, directory) ==
    [st EXCEPT !.stdin = Tail(@), !.prompts = Append(@, directory)]

remove_project(st, directory) ==
    IF ~Exists(st.fs, directory)
    THEN Raise(st, "ValueError")
    ELSE Confirmed(Ask(st, directory), directory, Head(st.stdin))

----------------------------------------------------------------------------
(* create_utility_files *)

create_utility_files(st, project_name) ==
    IF ~ParentExists(st.fs, project_name \o <<"/", ".gitignore">>)
    THEN Raise(st, "OSError")
    ELSE Write(
           OpenWrite(
             Write(
               Write(OpenWrite(st, project_name \o <<"/", ".gitignore">>),
                     project_name \o <<"/", ".gitignore">>, CONTENT),
               project_name \o <<"/", ".gitignore">>, project_name),
             project_name \o <<"/", "requirements", ".txt">>),
           project_name \o <<"/", "requirements", ".txt">>, REQ_BASE)

----------------------------------------------------------------------------
(* main *)

\* an optional argument: None, or the value given
None == <<>>

Some(x) == <<x>>

\* what `if x:` tests for an optional string or list
Truthy(opt) == opt # None /\ opt[1] # <<>>

\* line 356
ErrorExit == 1

\* the interpreter's exit status when main returns
NormalExit == 0

\* the interpreter's exit status when an exception is not caught
UncaughtExit == 1

\* lines 320-322: the loop over the modules to remove
RECURSIVE RemoveModules(_, _, _)
RemoveModules(st, remove, modules) ==
    IF modules = <<>> \/ ~Ok(st) THEN st
    ELSE RemoveModules(
             remove_project(st, Join(Join(remove, <<"modules">>), Head(modules))),
             remove, Tail(modules))

\* lines 336-347: the formatter, an external tool; what it rewrites inside
\* the files it formats is not part of the model
RunBlack(st, project_path, tools) ==
    IF ~tools.installed /\ ~tools.pip_ok THEN Raise(st, "CalledProcessError")
    ELSE IF project_path # <<>> /\ ~tools.black_ok
         THEN Raise(st, "CalledProcessError")
         ELSE st

\* lines 349-356 and the interpreter: how the process ends
Finish(st) ==
    IF Ok(st) THEN [st EXCEPT !.status = "exit", !.code = NormalExit]
    ELSE IF st.status \in {"OSError", "CalledProcessError"}
         THEN [Emit(st, <<"Error: ", st.status>>)
                  EXCEPT !.status = "exit", !.code = ErrorExit]
    ELSE IF st.status = "SystemExit"
         THEN [st EXCEPT !.status = "exit"]
    ELSE [st EXCEPT !.status = "uncaught " \o st.status, !.code = UncaughtExit]

\* lines 309-314
ProjectPath(args) ==
    IF Truthy(args.init) THEN Join(args.path, args.init[1]) ELSE <<>>

\* lines 310-314: --init
MainInit(st, args) ==
    IF Truthy(args.init)
    THEN create_utility_files(init_project(st, ProjectPath(args), <<>>),
                              ProjectPath(args))
    ELSE st

\* lines 317-324: --remove
MainRemove(st, args) ==
    IF Ok(st) /\ Truthy(args.remove)
    THEN IF args.modules # None
         THEN RemoveModules(st, args.remove[1], args.modules[1])
         ELSE remove_project(st, args.remove[1])
    ELSE st

\* lines 327-335: --module; os.path.exists(None) raises TypeError
MainModules(st, args) ==
    IF Ok(st) /\ Truthy(args.modules)
    THEN IF args.init = None
         THEN Raise(st, "TypeError")
         ELSE IF ~Exists(st.fs, args.init[1])
         THEN Emit(st, <<"Error: directory ">> \o args.init[1]
                          \o <<" does not exist">>)
         ELSE init_project(st, args.init[1], args.modules[1])
    ELSE st

\* lines 336-347
MainFormat(st, args, tools) ==
    IF Ok(st) THEN RunBlack(st, ProjectPath(args), tools) ELSE st

main(st, args, tools) ==
    Finish(MainFormat(MainModules(MainRemove(MainInit(st, args), args), args),
                      args, tools))

----------------
(* Inputs. *)

auth == <<"auth">>

billing == <<"billing">>

ModuleNames == {auth, billing}

ModuleLists == UNION {[1..k -> ModuleNames] : k \in 0..MaxLen}

app == <<"app">>

Projects == {app}

NoArg == [none |-> TRUE]

\* what remove_project is asked to delete: the project, its modules
\* directory, a module, a module's templates
RemoveDirs ==
    {app, Join(app, <<"modules">>)}
        \cup {Join(Join(app, <<"modules">>), m) : m \in ModuleNames}
        \cup {Join(Join(app, <<"templates">>), m) : m \in ModuleNames}

Answers ==
    { <<"y">>, <<"Y", "E", "S">>, <<"n">>, <<"N">>, <<"N", "o">>, <<"q">>, <<>> }

\* the answers typed at the console during one run of the command line
CliAnswers == { <<"y">>, <<"n">>, <<"N", "o">>, <<"q">> }

\* --path: the default "./" and another directory
CliPaths == { <<".", "/">>, <<"work">> }

\* the parsed arguments; --path is given only together with --init, and is
\* "./" when it is not given
CliArgs ==
    [ init : {Some(app)},
      remove : {None, Some(app)},
      modules : {None} \cup {Some(l) : l \in ModuleLists \ {<<>>}},
      path : CliPaths ]
    \cup
    [ init : {None},
      remove : {None, Some(app)},
      modules : {None} \cup {Some(l) : l \in ModuleLists \ {<<>>}},
      path : { <<".", "/">> } ]

\* how many answers a run can read at most
MaxPrompts(args) ==
    IF args.remove = None THEN 0
    ELSE IF args.modules = None THEN 1
    ELSE Len(args.modules[1])

\* what the run finds of the formatter: installed and working; not installed
\* and pip failing; installed and failing
Tools ==
    { [installed |-> TRUE, pip_ok |-> TRUE, black_ok |-> TRUE],
      [installed |-> FALSE, pip_ok |-> FALSE, black_ok |-> TRUE],
      [installed |-> TRUE, pip_ok |-> TRUE, black_ok |-> FALSE] }

----------------------------------------------------------------------------
(* Operations. *)

NoCall ==
    [op |-> "none", arg |-> NoArg, pre |-> EmptyFS,
     rerun |-> FALSE, start |-> EmptyFS, res |-> StartRun(EmptyFS, <<>>)]

Init ==
    /\ fs = EmptyFS
    /\ last = NoCall
    /\ crashes = 0

\* no call is under way
Idle == last.op = "none"

\* a call init_project(project_name, modules) that runs to its end, on its
\* own or right after a call with the same arguments was interrupted
InitProject(project_name, modules) ==
    LET arg == [project_name |-> project_name, modules |-> modules]
        rerun == last.op = "interrupted" /\ last.arg = arg
    IN  /\ Idle \/ last.op = "interrupted"
        /\ last' = [op |-> "init_project", arg |-> arg, pre |-> fs,
                    rerun |-> rerun,
                    start |-> IF rerun THEN last.pre ELSE fs,
                    res |-> init_project(StartRun(fs, <<>>),
                                         project_name, modules)]
        /\ fs' = last'.res.fs
        /\ UNCHANGED crashes

\* a call init_project(project_name, modules) that is interrupted after k
\* filesystem operations, before the next one
InitProjectInterrupted(project_name, modules, k) ==
    /\ Idle
    /\ crashes < MaxCrashes
    /\ last' = [op |-> "interrupted",
                arg |-> [project_name |-> project_name, modules |-> modules],
                pre |-> fs, rerun |-> FALSE, start |-> fs,
                res |-> init_project(StartRunUntil(fs, k),
                                     project_name, modules)]
    /\ last'.res.cut
    /\ fs' = last'.res.fs
    /\ crashes' = crashes + 1

\* a call remove_project(directory), answered at the console with `answer`
RemoveProject(directory, answer) ==
    /\ Idle
    /\ last' = [op |-> "remove_project",
                arg |-> [directory |-> directory, answer |-> answer],
                pre |-> fs, rerun |-> FALSE, start |-> fs,
                res |-> remove_project(StartRun(fs, <<answer>>), directory)]
    /\ fs' = last'.res.fs
    /\ UNCHANGED crashes

\* a call create_utility_files(project_name)
CreateUtilityFiles(project_name) ==
    /\ Idle
    /\ last' = [op |-> "create_utility_files",
                arg |-> [project_name |-> project_name],
                pre |-> fs, rerun |-> FALSE, start |-> fs,
                res |-> create_utility_files(StartRun(fs, <<>>), project_name)]
    /\ fs' = last'.res.fs
    /\ UNCHANGED crashes

\* one run of the command line
Main(args, stdin, tools) ==
    /\ Idle
    /\ last' = [op |-> "main",
                arg |-> [args |-> args, stdin |-> stdin, tools |-> tools],
                pre |-> fs, rerun |-> FALSE, start |-> fs,
                res |-> main(StartRun(fs, stdin), args, tools)]
    /\ fs' = last'.res.fs
    /\ UNCHANGED crashes

\* the call has ended and the next one can be made; the filesystem stays
Return ==
    /\ last.op \notin {"none", "interrupted"}
    /\ last' = NoCall
    /\ UNCHANGED <<fs, crashes>>

-----------
(* Specifications. *)

\* the functions of the scaffolder, called one after another
Next ==
    \/ \E project_name \in Projects, modules \in ModuleLists :
           InitProject(project_name, modules)
    \/ \E directory \in RemoveDirs, answer \in Answers :
           RemoveProject(directory, answer)
    \/ \E project_name \in Projects :
           CreateUtilityFiles(project_name)
    \/ Return

Spec == Init /\ [][Next]_vars

\* calls of init_project, some of them interrupted
NextCrash ==
    \/ \E project_name \in Projects, modules \in ModuleLists :
           InitProject(project_name, modules)
    \/ \E project_name \in Projects, modules \in ModuleLists :
           \E k \in 1..(init_project(StartRun(fs, <<>>), project_name, modules).n) :
               InitProjectInterrupted(project_name, modules, k)
    \/ Return

SpecCrash == Init /\ [][NextCrash]_vars

\* runs of the command line
NextCli ==
    \/ \E args \in CliArgs, tools \in Tools :
           \E stdin \in [1..MaxPrompts(args) -> CliAnswers] :
               Main(args, stdin, tools)
    \/ Return

SpecCli == Init /\ [][NextCli]_vars

----------------------------------------------------------------------------
(* What the claims speak of. *)

\* an affirmative answer: y or yes, in any letter case
IsYes(answer) ==
    \/ Len(answer) = 1 /\ answer[1] \in {"y", "Y"}
    \/ /\ Len(answer) = 3
       /\ answer[1] \in {"y", "Y"}
       /\ answer[2] \in {"e", "E"}
       /\ answer[3] \in {"s", "S"}

\* a negative answer: n or no, in any letter case
IsNo(answer) ==
    \/ Len(answer) = 1 /\ answer[1] \in {"n", "N"}
    \/ /\ Len(answer) = 2
       /\ answer[1] \in {"n", "N"}
       /\ answer[2] \in {"o", "O"}

\* the resolved path of a project's entry file
EntryKey(root) == Resolve(root) \o << <<"application", ".py">> >>

HasEntry(f, root) == EntryKey(root) \in DOMAIN f

\* the text of a project's entry file
EntryText(f, root) == IF HasEntry(f, root) THEN f[EntryKey(root)].data ELSE <<>>

\* how many lines of a text are, trimmed, the given line
LineCount(text, line) ==
    Cardinality({j \in 1..Len(ReadLines(text)) :
                    Strip(ReadLines(text)[j]) = line})

\* the import line of module m: from modules.m import m_bp
ExpectedImport(m) == <<"from modules.">> \o m \o <<" import ">> \o m \o <<"_bp">>

\* the registration-call line of module m: app.register_blueprint(m_bp)
ExpectedRegistration(m) == <<"app.register_blueprint(">> \o m \o <<"_bp)">>

\* the sub-router declaration named m_bp, of blueprint m, with URL prefix m
ExpectedDeclaration(m) ==
    m \o <<"_bp = Blueprint('">> \o m \o <<"', __name__,url_prefix='">>
      \o m \o <<"')">>

\* module m has exactly one import line and one registration-call line
RegisteredOnce(f, root, m) ==
    /\ LineCount(EntryText(f, root), ExpectedImport(m)) = 1
    /\ LineCount(EntryText(f, root), ExpectedRegistration(m)) = 1

\* module m has no line in the entry file
Unregistered(f, root, m) ==
    /\ LineCount(EntryText(f, root), ExpectedImport(m)) = 0
    /\ LineCount(EntryText(f, root), ExpectedRegistration(m)) = 0

ModuleKey(root, m) == Resolve(root) \o << <<"modules">>, m >>

StubKey(root, m) == ModuleKey(root, m) \o << m \o <<".py">> >>

TemplateKey(root, m) == Resolve(root) \o << <<"templates">>, m >>

IsDir(f, key) == key \in DOMAIN f /\ f[key].kind = "dir"

\* modules/m/m.py is a file that holds the declaration of m
HasStub(f, root, m) ==
    /\ StubKey(root, m) \in DOMAIN f
    /\ f[StubKey(root, m)].kind = "file"
    /\ LineCount(f[StubKey(root, m)].data, ExpectedDeclaration(m)) = 1

Distinct(list) ==
    \A i, j \in 1..Len(list) : list[i] = list[j] => i = j

\* the names that occur more than once in a list
Repeated(list) ==
    {list[i] : i \in {i \in 1..Len(list) :
                         \E j \in 1..Len(list) : j # i /\ list[j] = list[i]}}

----------------------------------------------------------------------------
(* Claims about init_project, under Spec. *)

\* C1: a second call of init_project with the arguments of the call that
\* just ended changes nothing in the filesystem: no file, no directory, no
\* content, no further line of the entry file.
InitProjectIdempotent ==
    last.op = "init_project" =>
        init_project(StartRun(fs, <<>>),
                     last.arg.project_name, last.arg.modules).fs = fs

\* C1: a call with two modules that wrote to the filesystem has ended
InitProjectIdempotentWitness ==
    /\ last.op = "init_project"
    /\ last.arg.modules = <<billing, auth>>
    /\ last.res.n > 0
    /\ EntryText(fs, last.arg.project_name)
           # EntryText(last.pre, last.arg.project_name)

\* C2: when auth's two lines are in the entry file once each, a call whose
\* module list is [billing], [auth, billing] or [billing, auth] leaves each
\* of auth's lines there exactly once, and billing is registered after it.
NoDuplicateRegistration ==
    ( /\ last.op = "init_project"
      /\ RegisteredOnce(last.pre, last.arg.project_name, auth)
      /\ last.arg.modules \in
             {<<billing>>, <<auth, billing>>, <<billing, auth>>} )
    => /\ RegisteredOnce(fs, last.arg.project_name, auth)
       /\ LineCount(EntryText(fs, last.arg.project_name),
                    ExpectedImport(billing)) >= 1
       /\ LineCount(EntryText(fs, last.arg.project_name),
                    ExpectedRegistration(billing)) >= 1

\* C3: after a call on a root that did not exist, with distinct module
\* names, every module m has modules/m/m.py with the declaration of m_bp
\* with URL prefix m, has the directory templates/m, and has exactly one
\* import line and exactly one registration-call line in the entry file.
InitProjectComplete ==
    ( /\ last.op = "init_project"
      /\ ~Exists(last.pre, last.arg.project_name)
      /\ Distinct(last.arg.modules) )
    => \A i \in 1..Len(last.arg.modules) :
           /\ HasStub(fs, last.arg.project_name, last.arg.modules[i])
           /\ IsDir(fs, TemplateKey(last.arg.project_name, last.arg.modules[i]))
           /\ RegisteredOnce(fs, last.arg.project_name, last.arg.modules[i])

\* C3: a call with [billing, auth] on a root that did not exist has ended
InitProjectCompleteWitness ==
    /\ last.op = "init_project"
    /\ ~Exists(last.pre, last.arg.project_name)
    /\ last.arg.modules = <<billing, auth>>

\* C4: when a name occurs more than once in the module list of a call, and
\* the module was unregistered or registered once before the call, then
\* after the call modules/<name> is a directory and the name has exactly
\* one import line and one registration-call line in the entry file.
DuplicateNamesCollapse ==
    last.op = "init_project" =>
        \A m \in Repeated(last.arg.modules) :
            ( \/ Unregistered(last.pre, last.arg.project_name, m)
              \/ RegisteredOnce(last.pre, last.arg.project_name, m) )
            => /\ IsDir(fs, ModuleKey(last.arg.project_name, m))
               /\ RegisteredOnce(fs, last.arg.project_name, m)

\* C9: a call on a project whose entry file exists leaves the text the file
\* had as the beginning of the text it has; text is added only when a module
\* of the call had no import line or no registration-call line; a call with
\* no module leaves the file as it was.
EntryAppendOnly ==
    ( /\ last.op = "init_project"
      /\ HasEntry(last.pre, last.arg.project_name) )
    => /\ HasEntry(fs, last.arg.project_name)
       /\ IsPrefixOf(EntryText(last.pre, last.arg.project_name),
                     EntryText(fs, last.arg.project_name))
       /\ ( EntryText(fs, last.arg.project_name)
                # EntryText(last.pre, last.arg.project_name)
            => \E i \in 1..Len(last.arg.modules) :
                   \/ LineCount(EntryText(last.pre, last.arg.project_name),
                                ExpectedImport(last.arg.modules[i])) = 0
                   \/ LineCount(EntryText(last.pre, last.arg.project_name),
                                ExpectedRegistration(last.arg.modules[i])) = 0 )
       /\ ( last.arg.modules = <<>>
            => EntryText(fs, last.arg.project_name)
                   = EntryText(last.pre, last.arg.project_name) )

\* C9: a call has added text to an entry file that existed
EntryAppendOnlyWitness ==
    /\ last.op = "init_project"
    /\ HasEntry(last.pre, last.arg.project_name)
    /\ Len(EntryText(fs, last.arg.project_name))
           > Len(EntryText(last.pre, last.arg.project_name))

----------------------------------------------------------------------------
(* Claims about remove_project, under Spec. *)

\* everything that is not at or under the directory
Outside(f, directory) ==
    [q \in {x \in DOMAIN f : ~IsPrefixOf(Resolve(directory), x)} |-> f[q]]

\* C5: remove_project deletes the subtree when the path exists and the
\* answer is y or yes in any letter case, and only then; on a path that does
\* not exist it raises before it asks; in every other case the filesystem
\* is as it was.
RemovalSafe ==
    last.op = "remove_project" =>
        /\ ~Exists(last.pre, last.arg.directory)
           => /\ last.res.status = "ValueError"
              /\ last.res.prompts = <<>>
              /\ fs = last.pre
        /\ Exists(last.pre, last.arg.directory) /\ ~IsYes(last.arg.answer)
           => fs = last.pre
        /\ Exists(last.pre, last.arg.directory) /\ IsYes(last.arg.answer)
           => fs = Outside(last.pre, last.arg.directory)
        /\ fs # last.pre
           => Exists(last.pre, last.arg.directory) /\ IsYes(last.arg.answer)

\* C5: a project that existed was deleted on the answer YES
RemovalSafeWitness ==
    /\ last.op = "remove_project"
    /\ last.arg.directory = app
    /\ last.arg.answer = <<"Y", "E", "S">>
    /\ Exists(last.pre, app)
    /\ ~Exists(fs, app)

----------------------------------------------------------------------------
(* Claims about the command line, under SpecCli. *)

\* the directory of the i-th module of a removal batch
BatchDir(args, i) ==
    Join(Join(args.remove[1], <<"modules">>), args.modules[1][i])

\* C6: in a batch of module removals whose directories all exist and whose
\* answers are all negative, every module is asked about and reported as
\* not deleted, no answer is called invalid, and nothing is deleted.
NegativeAnswerContinues ==
    ( /\ last.op = "main"
      /\ last.arg.args.init = None
      /\ last.arg.args.remove # None
      /\ last.arg.args.modules # None
      /\ \A i \in 1..Len(last.arg.args.modules[1]) :
             /\ Exists(last.pre, BatchDir(last.arg.args, i))
             /\ IsNo(last.arg.stdin[i]) )
    => /\ Len(last.res.prompts) = Len(last.arg.args.modules[1])
       /\ \A i \in 1..Len(last.res.out) :
              last.res.out[i] # <<"Invalid response">>
       /\ \A i \in 1..Len(last.arg.args.modules[1]) :
              /\ \E j \in 1..Len(last.res.out) :
                     last.res.out[j] =
                         <<"Directory ">> \o BatchDir(last.arg.args, i)
                                          \o <<" was not deleted">>
              /\ Exists(fs, BatchDir(last.arg.args, i))

\* C7: a run in which an answer that was read is neither affirmative nor
\* negative ends with a non-zero exit status, and asks no further question.
InvalidAnswerFails ==
    last.op = "main" =>
        \A i \in 1..Len(last.res.prompts) :
            ~IsYes(last.arg.stdin[i]) /\ ~IsNo(last.arg.stdin[i])
            => /\ last.res.code # 0
               /\ Len(last.res.prompts) = i

\* C8: a run with --init and --module (and no --remove) leaves every listed
\* module with its directory under <path>/<name>/modules and registered in
\* <path>/<name>/application.py; a run with --module and without --init
\* raises nothing.
InitWithModules ==
    ( /\ last.op = "main"
      /\ last.arg.args.remove = None
      /\ last.arg.args.modules # None )
    => /\ last.arg.args.init # None
          => \A i \in 1..Len(last.arg.args.modules[1]) :
                 LET root == Join(last.arg.args.path, last.arg.args.init[1])
                     m == last.arg.args.modules[1][i]
                 IN  /\ IsDir(fs, ModuleKey(root, m))
                     /\ LineCount(EntryText(fs, root), ExpectedImport(m)) >= 1
                     /\ LineCount(EntryText(fs, root),
                                  ExpectedRegistration(m)) >= 1
       /\ last.arg.args.init = None
          => last.res.status = "exit"

----------------------------------------------------------------------------
(* Claim about interrupted runs, under SpecCrash. *)

\* C10: a complete run of init_project right after an interrupted run with
\* the same arguments ends in the state in which a run that was not
\* interrupted would have ended.
RerunHeals ==
    last.op = "init_project" /\ last.rerun =>
        fs = init_project(StartRun(last.start, <<>>),
                          last.arg.project_name, last.arg.modules).fs

====
